---------------------------- MODULE Spec2Model ----------------------------
(***************************************************************************)
(* Model of dlup/data/transforms.py: the annotation rasterizer             *)
(* convert_annotations and the two sample-level label transforms          *)
(* MajorityClassToLabel and ContainsPolygonToLabel.                        *)
(*                                                                         *)
(* Coordinates are real-valued in the program.  Here a coordinate is an    *)
(* integer number of HALF units (3 stands for 1.5), so that the rounding   *)
(* done before rasterizing (numpy round: half to even) is a real           *)
(* conversion.  A ring is the sequence of its vertices, closed as shapely  *)
(* closes it (the first vertex repeated at the end).                       *)
(*                                                                         *)
(* cv2.fillPoly is modelled for rings whose rounded edges are horizontal,  *)
(* vertical or diagonal: every edge is drawn, and the inside is filled by  *)
(* the even-odd rule over ALL the contours of one call together (OpenCV    *)
(* collects the edges of every contour and toggles filling at each edge a  *)
(* scan line crosses), so a point inside two contours of one call is       *)
(* painted only when it lies on an edge.                                   *)
(***************************************************************************)
EXTENDS Integers, Sequences, FiniteSets, TLC

VARIABLES
    \* ---- convert_annotations: arguments
    region_size,      \* <<rows, columns>> of the masks
    index_map,        \* label -> class index
    roi_name,         \* ROI label, or NoName
    default_value,    \* initial value of every mask cell
    \* ---- convert_annotations: locals
    consumed,         \* the annotations the iterable has yielded so far
    mask,             \* class mask
    roi_mask,         \* ROI mask
    points,           \* label -> sequence of coordinates
    holes_mask,       \* None or <<mask of the holes>>
    original_values,  \* None or <<mask before the current polygon>>
    pc,               \* "loop" | "returned" | "idle"
    result,           \* None or <<points, mask, roi or None>>
    \* ---- label transforms
    sample,           \* the sample record
    call,             \* the transform applied and its constructor arguments
    err,              \* "none" or the exception that left the call
    pcL               \* "idle" | "ready" | "done"

caVars == <<region_size, index_map, roi_name, default_value, consumed, mask,
            roi_mask, points, holes_mask, original_values, pc, result>>
lbVars == <<sample, call, err, pcL>>
vars == <<caVars, lbVars>>

---------------------------------------------------------------------------
(* Bounds of the model *)

\* longest annotation sequence
MaxAnn == 3

---------------------------------------------------------------------------
(* Values *)

None == <<>>
Some(v) == <<v>>

\* roi_name is a string or Python's None, written NoName
NoName == "<None>"

\* Python truthiness of roi_name: None and "" are false
Truthy(name) == name # NoName /\ name # ""

\* x, y of a coordinate pair
X(p) == p[1]
Y(p) == p[2]

\* numpy round on a coordinate given in half units: half to even
Round(c) ==
    IF c % 2 = 0 THEN c \div 2
    ELSE LET k == (c - 1) \div 2 IN IF k % 2 = 0 THEN k ELSE k + 1

\* np.asarray(ring.coords).round().astype(np.int32)
RECURSIVE RoundRing(_)
RoundRing(ring) ==
    IF ring = <<>> THEN <<>>
    ELSE <<<<Round(X(Head(ring))), Round(Y(Head(ring)))>>>> \o RoundRing(Tail(ring))

\* the cells <<x, y>> of an array of shape <<rows, columns>>
Cells(size) == (0 .. size[2] - 1) \X (0 .. size[1] - 1)

\* np.zeros / np.empty + fill
Full(size, v) == [c \in Cells(size) |-> v]

\* the edge i of a ring: to the next vertex, the last one back to the first
EdgeEnd(ring, i) == ring[(i % Len(ring)) + 1]

\* p lies on the segment a-b
OnSegment(p, a, b) ==
    /\ (X(b) - X(a)) * (Y(p) - Y(a)) = (Y(b) - Y(a)) * (X(p) - X(a))
    /\ (X(a) <= X(p) /\ X(p) <= X(b)) \/ (X(b) <= X(p) /\ X(p) <= X(a))
    /\ (Y(a) <= Y(p) /\ Y(p) <= Y(b)) \/ (Y(b) <= Y(p) /\ Y(p) <= Y(a))

\* the ray from p towards +x crosses the segment a-b (half-open in y)
Crosses(p, a, b) ==
    /\ (Y(a) > Y(p)) # (Y(b) > Y(p))
    /\ IF Y(b) > Y(a)
       THEN (X(p) - X(a)) * (Y(b) - Y(a)) < (Y(p) - Y(a)) * (X(b) - X(a))
       ELSE (X(p) - X(a)) * (Y(b) - Y(a)) > (Y(p) - Y(a)) * (X(b) - X(a))

OnBoundary(p, ring) ==
    \E i \in DOMAIN ring : OnSegment(p, ring[i], EdgeEnd(ring, i))

\* the number of edges of the contours pts that the ray from p crosses
RECURSIVE Crossings(_, _)
Crossings(p, pts) ==
    IF pts = <<>> THEN 0
    ELSE Cardinality({i \in DOMAIN Head(pts) :
                         Crosses(p, Head(pts)[i], EdgeEnd(Head(pts), i))})
         + Crossings(p, Tail(pts))

\* cv2.fillPoly paints p: p is on a drawn edge, or inside by the even-odd rule
\* taken over all the contours of the call
Filled(p, pts) ==
    \/ \E r \in DOMAIN pts : OnBoundary(p, pts[r])
    \/ Crossings(p, pts) % 2 = 1

\* cv2.fillPoly(img, pts, color), clipped to the image; no contour: no change
FillPoly(img, pts, color) ==
    [c \in DOMAIN img |-> IF Filled(c, pts) THEN color ELSE img[c]]

---------------------------------------------------------------------------
(* Annotations *)

Point(label, xy) ==
    [kind |-> "Point", label |-> label, coords |-> xy,
     exterior |-> <<>>, interiors |-> <<>>]

Polygon(label, exterior, interiors) ==
    [kind |-> "Polygon", label |-> label, coords |-> <<>>,
     exterior |-> exterior, interiors |-> interiors]

\* the closed ring of the rectangle with corners (x0, y0) and (x1, y1)
Rect(x0, y0, x1, y1) ==
    <<<<x0, y0>>, <<x1, y0>>, <<x1, y1>>, <<x0, y1>>, <<x0, y0>>>>

\* the annotations the iterable may yield (coordinates in half units): a
\* polygon over the whole mask and beyond, a small one with fractional
\* corners, polygons with one hole, one with two overlapping holes, a
\* triangle, a polygon of an unmapped label and a point
Shapes ==
    { Polygon("a", Rect(0, 0, 8, 8), <<>>),
      Polygon("b", Rect(2, 2, 5, 3), <<>>),
      Polygon("b", Rect(0, 0, 6, 4), <<Rect(2, 2, 4, 4)>>),
      Polygon("a", Rect(0, 0, 8, 8), <<Rect(2, 2, 6, 6), Rect(2, 2, 8, 6)>>),
      Polygon("a", <<<<0, 0>>, <<6, 0>>, <<0, 6>>, <<0, 0>>>>, <<>>),
      Polygon("roi", Rect(0, 0, 4, 4), <<Rect(2, 2, 4, 4)>>),
      Polygon("x", Rect(0, 0, 8, 8), <<>>),
      Point("roi", <<1, 4>>) }

RegionSizes == {<<0, 0>>, <<1, 2>>, <<3, 4>>}
IndexMaps == { [l \in {"a", "b"} |-> IF l = "a" THEN 1 ELSE 2],
               [l \in {"a", "b", "roi"} |-> IF l = "a" THEN 1 ELSE IF l = "b" THEN 2 ELSE 3] }
RoiNames == {NoName, "roi"}
DefaultValues == {0, 5}

---------------------------------------------------------------------------
(* convert_annotations *)

\* points[label] += tuple(coords) on a defaultdict(list)
AddPoint(pts, label, xy) ==
    IF label \in DOMAIN pts
    THEN [pts EXCEPT ![label] = Append(@, xy)]
    ELSE pts @@ (label :> <<xy>>)

\* `interiors is not []`: an identity test against a fresh list, always true
IsNotFreshList(interiors) == TRUE

\* np.where(cond == 1, a, b)
Where(cond, a, b) == [c \in DOMAIN cond |-> IF cond[c] = 1 THEN a[c] ELSE b[c]]

\* variant: the exterior is painted only over cells no class was painted on
DrawClassPolygonKeepsEarlier(st, ann, size, imap) ==
    LET drawn == FillPoly(st.mask, <<RoundRing(ann.exterior)>>, imap[ann.label])
        classes == {imap[l] : l \in DOMAIN imap}
    IN  [st EXCEPT !.mask = [c \in DOMAIN drawn |->
                                 IF st.mask[c] \in classes THEN st.mask[c] ELSE drawn[c]],
                   !.holes_mask = Some(Full(size, 0)),
                   !.original_values = Some(st.mask)]

\* [np.asarray(pi.coords).round().astype(np.int32) for pi in interiors]
RECURSIVE RoundRings(_)
RoundRings(rings) ==
    IF rings = <<>> THEN <<>> ELSE <<RoundRing(Head(rings))>> \o RoundRings(Tail(rings))

\* the class-polygon branch of the loop body
DrawClassPolygon(st, ann, size, imap) ==
    LET interiors == RoundRings(ann.interiors)
        snap == IsNotFreshList(interiors)
        original == IF snap THEN Some(st.mask) ELSE None
        holes == IF snap THEN Some(FillPoly(Full(size, 0), interiors, 1)) ELSE None
        drawn == FillPoly(st.mask, <<RoundRing(ann.exterior)>>, imap[ann.label])
    IN  [st EXCEPT !.mask = IF snap THEN Where(holes[1], original[1], drawn) ELSE drawn,
                   !.holes_mask = holes,
                   !.original_values = original]

\* variant: the index-map test comes before the ROI test
BodyIndexMapFirst(st, ann, size, imap, roi) ==
    LET s0 == [st EXCEPT !.holes_mask = None] IN
    IF ann.kind = "Point"
    THEN [s0 EXCEPT !.points = AddPoint(@, ann.label, ann.coords)]
    ELSE IF ann.label \in DOMAIN imap
    THEN DrawClassPolygon(s0, ann, size, imap)
    ELSE IF Truthy(roi) /\ ann.label = roi
    THEN [s0 EXCEPT !.roi_mask = FillPoly(@, <<RoundRing(ann.exterior)>>, 1)]
    ELSE s0

\* one iteration of the loop over the annotations
Body(st, ann, size, imap, roi) ==
    LET s0 == [st EXCEPT !.holes_mask = None] IN
    IF ann.kind = "Point"
    THEN [s0 EXCEPT !.points = AddPoint(@, ann.label, ann.coords)]
    ELSE IF Truthy(roi) /\ ann.label = roi
    THEN [s0 EXCEPT !.roi_mask = FillPoly(@, <<RoundRing(ann.exterior)>>, 1)]
    ELSE IF ~(ann.label \in DOMAIN imap)
    THEN s0
    ELSE DrawClassPolygon(s0, ann, size, imap)

\* the locals before the loop
Locals0(size, dflt) ==
    [mask |-> Full(size, dflt), roi_mask |-> Full(size, 0), points |-> <<>>,
     holes_mask |-> None, original_values |-> None]

\* variant: the ROI mask is returned whether or not a ROI name was given
ReturnedAlwaysRoi(st, roi) ==
    [points |-> st.points, mask |-> st.mask, roi |-> Some(st.roi_mask)]

\* the returned triple
Returned(st, roi) ==
    [points |-> st.points, mask |-> st.mask,
     roi |-> IF Truthy(roi) THEN Some(st.roi_mask) ELSE None]

RECURSIVE Loop(_, _, _, _, _)
Loop(st, anns, size, imap, roi) ==
    IF anns = <<>> THEN st
    ELSE Loop(Body(st, Head(anns), size, imap, roi), Tail(anns), size, imap, roi)

\* the whole call
ConvertAnnotations(anns, size, imap, roi, dflt) ==
    Returned(Loop(Locals0(size, dflt), anns, size, imap, roi), roi)

Locals == [mask |-> mask, roi_mask |-> roi_mask, points |-> points,
           holes_mask |-> holes_mask, original_values |-> original_values]

InitCA ==
    /\ region_size \in RegionSizes
    /\ index_map \in IndexMaps
    /\ roi_name \in RoiNames
    /\ default_value \in DefaultValues
    /\ consumed = <<>>
    /\ mask = Locals0(region_size, default_value).mask
    /\ roi_mask = Locals0(region_size, default_value).roi_mask
    /\ points = Locals0(region_size, default_value).points
    /\ holes_mask = None
    /\ original_values = None
    /\ pc = "loop"
    /\ result = None

\* the iterable yields ann and the loop body runs on it
Iterate(ann) ==
    /\ pc = "loop"
    /\ Len(consumed) < MaxAnn
    /\ LET st == Body(Locals, ann, region_size, index_map, roi_name) IN
        /\ mask' = st.mask
        /\ roi_mask' = st.roi_mask
        /\ points' = st.points
        /\ holes_mask' = st.holes_mask
        /\ original_values' = st.original_values
    /\ consumed' = Append(consumed, ann)
    /\ UNCHANGED <<region_size, index_map, roi_name, default_value, pc, result>>

IsPoint(ann) == ann.kind = "Point"
IsRoi(ann) == ~IsPoint(ann) /\ Truthy(roi_name) /\ ann.label = roi_name
IsIgnored(ann) == ~IsPoint(ann) /\ ~IsRoi(ann) /\ ann.label \notin DOMAIN index_map
IsClass(ann) == ~IsPoint(ann) /\ ~IsRoi(ann) /\ ann.label \in DOMAIN index_map

AppendPoint == \E ann \in Shapes : IsPoint(ann) /\ Iterate(ann)
FillRoi == \E ann \in Shapes : IsRoi(ann) /\ Iterate(ann)
SkipLabel == \E ann \in Shapes : IsIgnored(ann) /\ Iterate(ann)
DrawPolygon == \E ann \in Shapes : IsClass(ann) /\ Iterate(ann)

\* the iterable is exhausted: return dict(points), mask, roi_mask or None
Return ==
    /\ pc = "loop"
    /\ pc' = "returned"
    /\ result' = Some(Returned(Locals, roi_name))
    /\ UNCHANGED <<region_size, index_map, roi_name, default_value, consumed,
                   mask, roi_mask, points, holes_mask, original_values>>

---------------------------------------------------------------------------
(* Geometry of the label transforms (shapely).  Areas are counted in eighths *)
(* of a square unit, which keeps them integers for half-unit coordinates.    *)

RECURSIVE Shoelace(_, _)
Shoelace(ring, i) ==
    IF i > Len(ring) THEN 0
    ELSE X(ring[i]) * Y(EdgeEnd(ring, i)) - X(EdgeEnd(ring, i)) * Y(ring[i])
         + Shoelace(ring, i + 1)

Abs(n) == IF n < 0 THEN -n ELSE n

\* area of the region a ring encloses
RingArea(ring) == Abs(Shoelace(ring, 1))

RECURSIVE RingsArea(_)
RingsArea(rings) ==
    IF rings = <<>> THEN 0 ELSE RingArea(Head(rings)) + RingsArea(Tail(rings))

\* annotation.area: exterior minus holes for a polygon, 0 for a point
Area(ann) ==
    IF ann.kind = "Point" THEN 0 ELSE RingArea(ann.exterior) - RingsArea(ann.interiors)

\* the plane is cut into unit squares; <<i, j>> is the square with lower
\* corner (i, j), and its centre is <<2i + 1, 2j + 1>> in half units
UnitCells == (0 .. 3) \X (0 .. 3)
CellArea == RingArea(Rect(0, 0, 2, 2))

\* the centre of the square c is inside the ring
CentreInside(c, ring) == Crossings(<<2 * c[1] + 1, 2 * c[2] + 1>>, <<ring>>) % 2 = 1

\* the squares of a polygon whose edges are horizontal or vertical and whose
\* vertices have whole coordinates
PolyRegion(ann) ==
    {c \in UnitCells :
        /\ CentreInside(c, ann.exterior)
        /\ \A k \in DOMAIN ann.interiors : ~CentreInside(c, ann.interiors[k])}

\* the annotations of the given label, in order
RECURSIVE WithLabel(_, _)
WithLabel(anns, label) ==
    IF anns = <<>> THEN <<>>
    ELSE (IF Head(anns).label = label THEN <<Head(anns)>> ELSE <<>>)
         \o WithLabel(Tail(anns), label)

RECURSIVE AreaSum(_)
AreaSum(anns) == IF anns = <<>> THEN 0 ELSE Area(Head(anns)) + AreaSum(Tail(anns))

\* shapely.geometry.MultiPolygon(polygons): its squares and its area (the
\* sum of the areas of its parts)
MultiPolygon(polys) ==
    [cells |-> UNION {PolyRegion(polys[i]) : i \in DOMAIN polys},
     area |-> AreaSum(polys)]

\* shapely.geometry.box(minx, miny, maxx, maxy), in whole units
Box(minx, miny, maxx, maxy) ==
    [cells |-> {c \in UnitCells : /\ minx <= c[1] /\ c[1] < maxx
                                  /\ miny <= c[2] /\ c[2] < maxy},
     area |-> (maxx - minx) * (maxy - miny) * CellArea]

\* a.intersection(b).area
IntersectionArea(a, b) == Cardinality(a.cells \cap b.cells) * CellArea

\* the polygons can be put in one valid MultiPolygon: no point among them and
\* no two with a square in common
ValidParts(polys) ==
    /\ \A i \in DOMAIN polys : polys[i].kind = "Polygon"
    /\ \A i, j \in DOMAIN polys :
          i # j => PolyRegion(polys[i]) \cap PolyRegion(polys[j]) = {}

---------------------------------------------------------------------------
(* Floating-point quotients: n / d with the IEEE results for d = 0 *)

Quot(n, d) ==
    IF d # 0 THEN [k |-> "fin", n |-> n, d |-> d]
    ELSE IF n > 0 THEN [k |-> "inf", n |-> 1, d |-> 1]
    ELSE IF n < 0 THEN [k |-> "-inf", n |-> -1, d |-> 1]
    ELSE [k |-> "nan", n |-> 0, d |-> 1]

\* variant: p >= q
GreaterOrEqual(p, q) ==
    IF p.k = "nan" \/ q.k = "nan" THEN FALSE
    ELSE IF p.k = "inf" THEN TRUE
    ELSE IF q.k = "-inf" THEN TRUE
    ELSE IF p.k = "-inf" \/ q.k = "inf" THEN FALSE
    ELSE p.n * q.d >= q.n * p.d

\* p > q on such values (denominators are positive; a comparison with nan is
\* false)
Greater(p, q) ==
    IF p.k = "nan" \/ q.k = "nan" THEN FALSE
    ELSE IF p.k = "inf" THEN q.k # "inf"
    ELSE IF q.k = "-inf" THEN p.k # "-inf"
    ELSE IF p.k = "-inf" \/ q.k = "inf" THEN FALSE
    ELSE p.n * q.d > q.n * p.d

---------------------------------------------------------------------------
(* The sample and the label transforms *)

\* the samples' annotations (coordinates in half units, all whole; edges
\* horizontal or vertical)
LabelShapes ==
    { Polygon("a", Rect(0, 0, 4, 4), <<>>),
      Polygon("a", Rect(4, 0, 8, 4), <<>>),
      Polygon("b", Rect(0, 0, 4, 8), <<>>),
      Polygon("b", Rect(0, 0, 8, 8), <<Rect(2, 2, 6, 6)>>),
      Polygon("roi", Rect(0, 0, 8, 4), <<>>),
      Polygon("roi", Rect(0, 0, 2, 4), <<>>),
      Point("a", <<2, 2>>) }

\* PIL sizes <<width, height>>
TileSizes == {<<0, 0>>, <<4, 2>>}
PixelValues == {200}
TargetLabels == {"a", "b"}
\* thresholds <<numerator, denominator>>
Thresholds == {<<0, 1>>, <<2, 5>>, <<1, 2>>, <<3, 5>>, <<1, 1>>}

\* size[::-1]
Reversed(size) == <<size[2], size[1]>>

\* the areas dictionary, in insertion order: a sequence of <<label, area>>
AreasGet(areas, label) ==
    IF \E i \in DOMAIN areas : areas[i][1] = label
    THEN areas[CHOOSE i \in DOMAIN areas : areas[i][1] = label][2]
    ELSE 0

AreasAdd(areas, label, a) ==
    IF \E i \in DOMAIN areas : areas[i][1] = label
    THEN [i \in DOMAIN areas |->
             IF areas[i][1] = label THEN <<label, areas[i][2] + a>> ELSE areas[i]]
    ELSE Append(areas, <<label, a>>)

RECURSIVE AreasDel(_, _)
AreasDel(areas, label) ==
    IF areas = <<>> THEN <<>>
    ELSE (IF Head(areas)[1] = label THEN <<>> ELSE <<Head(areas)>>)
         \o AreasDel(Tail(areas), label)

\* for annotation in sample["annotations"]: if annotation.label in keys: ...
RECURSIVE Accumulate(_, _, _)
Accumulate(areas, anns, keys) ==
    IF anns = <<>> THEN areas
    ELSE Accumulate(IF Head(anns).label \in keys
                    THEN AreasAdd(areas, Head(anns).label, Area(Head(anns)))
                    ELSE areas,
                    Tail(anns), keys)

\* variant: the key of the smallest area
MinKey(areas) ==
    areas[CHOOSE i \in DOMAIN areas :
             /\ \A j \in DOMAIN areas : areas[j][2] >= areas[i][2]
             /\ \A j \in 1 .. i - 1 : areas[j][2] > areas[i][2]][1]

\* max(areas, key=lambda x: areas[x]) on a non-empty dictionary: the first key
\* of greatest area
MaxKey(areas) ==
    areas[CHOOSE i \in DOMAIN areas :
             /\ \A j \in DOMAIN areas : areas[j][2] <= areas[i][2]
             /\ \A j \in 1 .. i - 1 : areas[j][2] < areas[i][2]][1]

\* variant: an empty dictionary yields a default key instead of an error
SelectMaxDefault(areas) ==
    IF areas = <<>> THEN [err |-> "none", key |-> "a"]
    ELSE [err |-> "none", key |-> MaxKey(areas)]

\* max(...): ValueError on an empty dictionary
SelectMax(areas) ==
    IF areas = <<>> THEN [err |-> "ValueError", key |-> ""]
    ELSE [err |-> "none", key |-> MaxKey(areas)]

\* sample["labels"].update({key: value}), sample["labels"] = {} first if absent
WithLabels(smp) ==
    IF smp.has_labels THEN smp ELSE [smp EXCEPT !.has_labels = TRUE, !.labels = <<>>]

Update(labels, key, value) ==
    IF key \in DOMAIN labels THEN [labels EXCEPT ![key] = value]
    ELSE labels @@ (key :> value)

\* np.asarray(image) * roi[..., np.newaxis], as uint8
Masked(image, roi) == [c \in DOMAIN image |-> (image[c] * roi[c]) % 256]

\* MajorityClassToLabel(roi_name, index_map).__call__(sample): the sample
\* left behind and the exception raised, if any
MajorityCall(smp, roi, imap) ==
    IF ~smp.has_annotations THEN [sample |-> smp, err |-> "none"]
    ELSE
    LET s1 == WithLabels(smp)
        keys == DOMAIN imap \cup (IF Truthy(roi) THEN {roi} ELSE {})
        areas0 == Accumulate(<<>>, s1.annotations, keys)
        tile_area == s1.size[1] * s1.size[2] * CellArea
        roi_non_cover == IF Truthy(roi)
                         THEN Quot(tile_area - AreasGet(areas0, roi), tile_area)
                         ELSE Quot(0, 1)
        areas == IF Truthy(roi) THEN AreasDel(areas0, roi) ELSE areas0
        sel == SelectMax(areas)
    IN  IF sel.err # "none" THEN [sample |-> s1, err |-> sel.err]
        ELSE
        LET max_proportion == Quot(AreasGet(areas, sel.key), tile_area)
            ret == ConvertAnnotations(s1.annotations, Reversed(s1.size), <<>>, roi, 0)
            s2 == IF Greater(roi_non_cover, max_proportion)
                  THEN [s1 EXCEPT !.image = Masked(@, ret.roi[1])]
                  ELSE s1
        IN  [sample |-> [s2 EXCEPT !.labels = Update(@, "majority_class", imap[sel.key])],
             err |-> "none"]

HasKey(label) == IF label = "a" THEN "has a" ELSE "has b"

\* variant: a zero denominator gives nan, which compares false
ProportionNan(label_area, roi_area) ==
    [err |-> "none", value |-> Quot(label_area, roi_area)]

\* label_area / roi.area on Python floats: ZeroDivisionError for a zero area
Proportion(label_area, roi_area) ==
    IF roi_area = 0 THEN [err |-> "ZeroDivisionError", value |-> Quot(0, 0)]
    ELSE [err |-> "none", value |-> Quot(label_area, roi_area)]

\* variant: at least the threshold
ExceedsOrEqual(proportion, threshold) ==
    GreaterOrEqual(proportion, Quot(threshold[1], threshold[2]))

\* proportion > self._threshold
Exceeds(proportion, threshold) == Greater(proportion, Quot(threshold[1], threshold[2]))

\* the region the label is measured in
ReferenceRegion(smp, roi) ==
    IF Truthy(roi)
    THEN MultiPolygon(WithLabel(smp.annotations, roi))
    ELSE Box(0, 0, Reversed(smp.size)[1], Reversed(smp.size)[2])

\* ContainsPolygonToLabel.__call__ up to the proportion
ContainsMeasure(smp, roi, label) ==
    LET requested_polygons == WithLabel(smp.annotations, label)
        region == ReferenceRegion(smp, roi)
        multi_polygon == MultiPolygon(requested_polygons)
        label_area == IntersectionArea(multi_polygon, region)
    IN  Proportion(label_area, region.area)

\* ContainsPolygonToLabel(roi_name, label, threshold).__call__(sample), given
\* the proportion
ContainsResult(smp, proportion, label, threshold) ==
    IF ~smp.has_annotations THEN [sample |-> smp, err |-> "none"]
    ELSE
    LET s1 == WithLabels(smp) IN
    IF proportion.err # "none" THEN [sample |-> s1, err |-> proportion.err]
    ELSE [sample |-> [s1 EXCEPT !.labels =
                         Update(@, HasKey(label), Exceeds(proportion.value, threshold))],
          err |-> "none"]

\* the sequences of at most n annotations
RECURSIVE SeqsUpTo(_, _)
SeqsUpTo(S, n) ==
    IF n = 0 THEN {<<>>}
    ELSE LET shorter == SeqsUpTo(S, n - 1) IN
         shorter \cup {Append(q, x) : q \in shorter, x \in S}

NoCall == [transform |-> "none", roi_name |-> NoName, index_map |-> <<>>,
           label |-> "", threshold |-> <<0, 1>>]

InitLabels ==
    /\ \E anns \in SeqsUpTo(LabelShapes, MaxAnn), size \in TileSizes,
          v \in PixelValues, hl \in BOOLEAN, ha \in BOOLEAN :
          /\ ~ha => anns = <<>> /\ ~hl
          /\ sample = [has_annotations |-> ha, annotations |-> anns, size |-> size,
                       image |-> Full(Reversed(size), v),
                       has_labels |-> hl, labels |-> <<>>]
    /\ call = NoCall
    /\ err = "none"
    /\ pcL = "ready"

MajorityClassToLabel ==
    /\ pcL = "ready"
    /\ \E roi \in RoiNames, imap \in IndexMaps :
          LET r == MajorityCall(sample, roi, imap) IN
          /\ sample' = r.sample
          /\ err' = r.err
          /\ call' = [NoCall EXCEPT !.transform = "Majority", !.roi_name = roi,
                                    !.index_map = imap]
    /\ pcL' = "done"

\* the shapes the call puts in a MultiPolygon are as ValidParts says
ContainsPolygonToLabel ==
    /\ pcL = "ready"
    /\ \E roi \in RoiNames, label \in TargetLabels :
          /\ ValidParts(WithLabel(sample.annotations, label))
          /\ Truthy(roi) => ValidParts(WithLabel(sample.annotations, roi))
          /\ LET proportion == ContainsMeasure(sample, roi, label) IN
             \E threshold \in Thresholds :
                LET r == ContainsResult(sample, proportion, label, threshold) IN
                /\ sample' = r.sample
                /\ err' = r.err
                /\ call' = [NoCall EXCEPT !.transform = "Contains", !.roi_name = roi,
                                          !.label = label, !.threshold = threshold]
    /\ pcL' = "done"

IdleLabels ==
    /\ sample = <<>>
    /\ call = NoCall
    /\ err = "none"
    /\ pcL = "idle"

IdleCA ==
    /\ region_size = <<0, 0>>
    /\ index_map = <<>>
    /\ roi_name = NoName
    /\ default_value = 0
    /\ consumed = <<>>
    /\ mask = <<>>
    /\ roi_mask = <<>>
    /\ points = <<>>
    /\ holes_mask = None
    /\ original_values = None
    /\ pc = "idle"
    /\ result = None

Init == InitCA /\ IdleLabels

Next ==
    \/ AppendPoint /\ UNCHANGED lbVars
    \/ FillRoi /\ UNCHANGED lbVars
    \/ SkipLabel /\ UNCHANGED lbVars
    \/ DrawPolygon /\ UNCHANGED lbVars
    \/ Return /\ UNCHANGED lbVars

Spec == Init /\ [][Next]_vars

InitSample == IdleCA /\ InitLabels

NextSample ==
    \/ MajorityClassToLabel /\ UNCHANGED caVars
    \/ ContainsPolygonToLabel /\ UNCHANGED caVars

SpecLabels == InitSample /\ [][NextSample]_vars

---------------------------------------------------------------------------
(* Properties of convert_annotations *)

Last == consumed[Len(consumed)]
GridCells == Cells(region_size)

\* cell c is covered by the ring once rasterized (drawn edge or inside)
InRing(c, ring) == Filled(c, <<RoundRing(ring)>>)
InSomeHole(c, ann) == \E k \in DOMAIN ann.interiors : InRing(c, ann.interiors[k])

\* C1: right after a class polygon with interior rings is processed, every
\* cell inside one of its holes holds the value it held just before the
\* polygon was drawn, and every cell inside the exterior ring and outside all
\* holes holds index_map[label].
C1_HolesRevealUnderlying ==
    (consumed # <<>> /\ IsClass(Last) /\ Last.interiors # <<>>) =>
        \A c \in GridCells :
            /\ InSomeHole(c, Last) => mask[c] = original_values[1][c]
            /\ (InRing(c, Last.exterior) /\ ~InSomeHole(c, Last)) =>
                   mask[c] = index_map[Last.label]

\* B's rounded exterior lies inside A's rounded exterior (the exteriors of
\* the model are convex, so the vertices decide)
NestedIn(b, a) ==
    /\ \A i \in DOMAIN b.exterior : InRing(RoundRing(b.exterior)[i], a.exterior)
    /\ \A c \in GridCells : InRing(c, b.exterior) => InRing(c, a.exterior)

\* the earlier class polygons that contain the last annotation
Enclosing ==
    {i \in 1 .. Len(consumed) - 1 : IsClass(consumed[i]) /\ NestedIn(Last, consumed[i])}

\* C2: when a class polygon B without holes is processed after a class
\* polygon A that contains B's exterior, every cell of B's region holds
\* index_map[B.label] and every cell of A's region outside B holds the value
\* it had before B was processed.
C2_NestedOverwrites ==
    (consumed # <<>> /\ IsClass(Last) /\ Last.interiors = <<>>) =>
        LET A == Enclosing
            B == {c \in GridCells : InRing(c, Last.exterior)}
        IN  A # {} =>
              /\ \A c \in B : mask[c] = index_map[Last.label]
              /\ \A i \in A : \A c \in GridCells \ B :
                     InRing(c, consumed[i].exterior) => mask[c] = original_values[1][c]

\* B changed part of A's region and left another part of it as it was
C2_Witness ==
    /\ consumed # <<>> /\ IsClass(Last) /\ Last.interiors = <<>> /\ Enclosing # {}
    /\ \E i \in Enclosing : consumed[i].label # Last.label
    /\ \E c \in GridCells :
           InRing(c, Last.exterior) /\ original_values[1][c] # index_map[Last.label]
    /\ \E c \in GridCells, i \in Enclosing :
           /\ InRing(c, consumed[i].exterior) /\ ~InRing(c, Last.exterior)
           /\ mask[c] = index_map[consumed[i].label]

\* C3: a polygon labelled with the ROI name only sets the cells of its
\* exterior ring to 1 in the ROI mask (holes ignored) and leaves the class
\* mask and the points unchanged, also when its label is a key of index_map;
\* a Point only appends its coordinates to the points of its label.
C3_RoiAndPointsIsolated ==
    [][consumed' # consumed =>
        LET ann == consumed'[Len(consumed')] IN
        /\ IsRoi(ann) =>
              /\ mask' = mask
              /\ points' = points
              /\ roi_mask' = [c \in GridCells |->
                                 IF InRing(c, ann.exterior) THEN 1 ELSE roi_mask[c]]
        /\ IsPoint(ann) =>
              /\ mask' = mask
              /\ roi_mask' = roi_mask
              /\ DOMAIN points' = DOMAIN points \cup {ann.label}
              /\ \A l \in DOMAIN points' :
                     points'[l] = IF l = ann.label
                                  THEN (IF l \in DOMAIN points THEN points[l] ELSE <<>>)
                                       \o <<ann.coords>>
                                  ELSE points[l]]_vars

\* a ROI polygon with a hole, whose label is also a key of index_map, was
\* rasterized over a class mask that holds a class index, and a Point was seen
C3_Witness ==
    /\ consumed # <<>> /\ IsRoi(Last) /\ Last.label \in DOMAIN index_map
    /\ \E c \in GridCells : InSomeHole(c, Last) /\ roi_mask[c] = 1 /\ mask[c] # default_value
    /\ \E c \in GridCells : roi_mask[c] = 0
    /\ \E l \in DOMAIN points : Len(points[l]) > 0

\* C4: with no annotation the call returns no points, a class mask of the
\* given size holding default_value everywhere, and a ROI mask of the given
\* size holding 0 everywhere when a ROI name is given, None otherwise.
C4_EmptyInput ==
    (pc = "returned" /\ consumed = <<>>) =>
        /\ result[1].points = <<>>
        /\ result[1].mask = [c \in GridCells |-> default_value]
        /\ result[1].roi = IF roi_name \in {NoName, ""}
                           THEN None
                           ELSE Some([c \in GridCells |-> 0])

C4_Witness ==
    /\ pc = "returned" /\ consumed = <<>>
    /\ region_size = <<3, 4>> /\ default_value = 5 /\ roi_name = "roi"

\* the annotation consumed[i] paints cell c: a class polygon whose exterior
\* ring covers c and none of whose holes does
Paints(i, c) ==
    /\ IsClass(consumed[i])
    /\ InRing(c, consumed[i].exterior)
    /\ ~InSomeHole(c, consumed[i])

\* C10: every cell of the class mask holds index_map[P.label] for the last
\* annotation P that paints it, and default_value when there is none.
C10_ClosedForm ==
    \A c \in GridCells :
        LET P == {i \in DOMAIN consumed : Paints(i, c)} IN
        mask[c] = IF P = {} THEN default_value
                  ELSE index_map[consumed[CHOOSE i \in P : \A j \in P : j <= i].label]

---------------------------------------------------------------------------
(* Properties of MajorityClassToLabel *)

Anns == sample.annotations
LabelsOf(anns) == {anns[i].label : i \in DOMAIN anns}
MajorityDone == pcL = "done" /\ call.transform = "Majority" /\ sample.has_annotations

\* C5 as stated: with annotations none of which has a label in index_map,
\* the call fails with a NoLabelFound error and records no majority_class.
C5_NoLabelFound ==
    (MajorityDone /\ LabelsOf(Anns) \cap DOMAIN call.index_map = {}) =>
        /\ err = "NoLabelFound"
        /\ "majority_class" \notin DOMAIN sample.labels

\* C5, amended: with annotations none of which has a label in index_map, the
\* call fails with the ValueError of max() on an empty dictionary; it never
\* returns normally and records no majority_class.
C5_ValueError ==
    (MajorityDone /\ LabelsOf(Anns) \cap DOMAIN call.index_map = {}) =>
        /\ err = "ValueError"
        /\ "majority_class" \notin DOMAIN sample.labels

\* the call failed on a sample whose only annotations are ROI shapes
C5_Witness ==
    /\ MajorityDone /\ Anns # <<>>
    /\ LabelsOf(Anns) \cap DOMAIN call.index_map = {}
    /\ call.roi_name = "roi" /\ "roi" \in LabelsOf(Anns)
    /\ err = "ValueError"

\* summed declared area of the annotations of a label
SummedArea(anns, label) == AreaSum(WithLabel(anns, label))

\* the labels that can be the majority: keys of index_map other than the ROI
\* name, carried by an annotation
Candidates(anns, roi, imap) ==
    (LabelsOf(anns) \cap DOMAIN imap) \ (IF Truthy(roi) THEN {roi} ELSE {})

Greatest(anns, roi, imap) ==
    {k \in Candidates(anns, roi, imap) :
        \A l \in Candidates(anns, roi, imap) : SummedArea(anns, l) <= SummedArea(anns, k)}

\* the cells of the image inside the exterior of a polygon labelled roi
RoiCells(smp, roi) ==
    {c \in Cells(Reversed(smp.size)) :
        \E i \in DOMAIN smp.annotations :
            /\ smp.annotations[i].kind = "Polygon"
            /\ smp.annotations[i].label = roi
            /\ InRing(c, smp.annotations[i].exterior)}

\* what C6 says of a call on sample s that leaves t and exception e
MajorityPost(s, t, e, roi, imap) ==
    LET tile == s.size[1] * s.size[2] * CellArea
        roi_non_cover == IF Truthy(roi)
                         THEN Quot(tile - SummedArea(s.annotations, roi), tile)
                         ELSE Quot(0, 1)
    IN  /\ e = "none"
        /\ "majority_class" \in DOMAIN t.labels
        /\ \E k \in Greatest(s.annotations, roi, imap) :
              /\ t.labels["majority_class"] = imap[k]
              /\ t.image =
                    IF Greater(roi_non_cover, Quot(SummedArea(s.annotations, k), tile))
                    THEN [c \in DOMAIN s.image |->
                             IF c \in RoiCells(s, roi) THEN s.image[c] ELSE 0]
                    ELSE s.image
        /\ ~Truthy(roi) => t.image = s.image

MajorityStep == pcL = "ready" /\ pcL' = "done" /\ call'.transform = "Majority"
                /\ sample.has_annotations

---------------------------------------------------------------------------
(* Properties of ContainsPolygonToLabel *)

ContainsDone == pcL = "done" /\ call.transform = "Contains" /\ sample.has_annotations
Target == MultiPolygon(WithLabel(Anns, call.label))
Has == HasKey(call.label)

\* C7: without a ROI name the label is measured against the tile rectangle
\* with corners (0, 0) and (width, height): the flag is set by comparing
\* area(target clipped to x in [0, width], y in [0, height]) / (width * height)
\* with the threshold.
C7_FullTileRectangle ==
    (ContainsDone /\ ~Truthy(call.roi_name) /\ err = "none") =>
        LET tile == Box(0, 0, sample.size[1], sample.size[2]) IN
        sample.labels[Has] =
            Greater(Quot(IntersectionArea(Target, tile), tile.area),
                    Quot(call.threshold[1], call.threshold[2]))

=============================================================================
